---- MODULE Spec2Model ----
(***************************************************************************)
(* Model of neo4j/v1/types/spatial.py: the Point type, the four Point      *)
(* subclasses created at import, the hydrate factory, equality, hashing    *)
(* and the named coordinate accessors.                                     *)
(*                                                                         *)
(* Python values are encoded as follows.                                   *)
(*   - a scalar is a tagged tuple: None is <<"None">>, the number n is     *)
(*     <<"num", n>>; an attribute missing from an instance's __dict__ is   *)
(*     <<"unset">>;                                                        *)
(*   - an object is a record [cls, crs, coords]: cls is the name of its    *)
(*     type, crs the "crs" entry of its instance __dict__ (Unset when      *)
(*     there is none), coords its items when it is a sequence.             *)
(***************************************************************************)
EXTENDS Integers, Sequences, FiniteSets

\* Longest argument list / iterable handed to hydrate and to the constructor.
MaxLen == 4
\* Hashes are followed on their HashBits low bits (+, * and ^ all commute
\* with truncation to the low bits of the machine word).
HashBits == 14

\* Coordinate values handed to the factory and the constructor.
Coordinates == {1, 2}
\* Integer CRS codes that are in no entry of __point_types.
UnregisteredCodes == {7204}

None == <<"None">>
Unset == <<"unset">>
PyNum(n) == <<"num", n>>
IsNum(v) == v[1] = "num"

\* __point_types: (CRS code, type name, attribute names).
PointTypes ==
    << [crs |-> 7203, name |-> "CartesianPoint",   fields |-> <<"x", "y">>],
       [crs |-> 9157, name |-> "CartesianPoint3D", fields |-> <<"x", "y", "z">>],
       [crs |-> 4326, name |-> "WGS84Point",       fields |-> <<"longitude", "latitude">>],
       [crs |-> 4979, name |-> "WGS84Point3D",
        fields |-> <<"longitude", "latitude", "height">>] >>

\* The types __create_point_types adds to the module, in creation order.
SubclassNames == [i \in DOMAIN PointTypes |-> PointTypes[i].name]
Classes == {"Point"} \cup {PointTypes[i].name : i \in DOMAIN PointTypes}
TypeOf(cls) == PointTypes[CHOOSE i \in DOMAIN PointTypes : PointTypes[i].name = cls]

\* cls.__subclasses__(): every generated type has the single base Point.
Subclasses(cls) == IF cls = "Point" THEN SubclassNames ELSE <<>>
\* The class attribute crs: None on Point, the table's code on a subclass.
ClassCrs(cls) == IF cls = "Point" THEN None ELSE PyNum(TypeOf(cls).crs)
\* The properties __create_point_types puts on a type; Point has none.
ClassFields(cls) == IF cls = "Point" THEN <<>> ELSE TypeOf(cls).fields

RegisteredCrs == {PyNum(PointTypes[i].crs) : i \in DOMAIN PointTypes}
CRSInputs == {None} \cup RegisteredCrs \cup {PyNum(c) : c \in UnregisteredCodes}

RECURSIVE SeqsUpTo(_, _)
SeqsUpTo(S, n) ==
    IF n = 0 THEN {<<>>}
    ELSE LET shorter == SeqsUpTo(S, n - 1)
         IN  shorter \cup {Append(s, x) : s \in {t \in shorter : Len(t) = n - 1}, x \in S}
CoordLists == SeqsUpTo(Coordinates, MaxLen)

NoPoint == [cls |-> "NoPoint", crs |-> Unset, coords |-> <<>>]
NoClass == "None"

\* inst:   the point the caller holds (NoPoint when it holds none, and after
\*         a hydrate call that raised);
\* origin: how inst was created: "hydrate", "new", or "none" with NoPoint;
\* result: the operation in progress with its arguments and its outcome (the
\*         value returned or the exception raised), Idle between calls.
VARIABLES inst, origin, result
vars == <<inst, origin, result>>

----------------------------------------------------------------------------
\* Point.__new__: a tuple of the iterable's items, of type cls, with an empty
\* instance __dict__.
New(cls, iterable) == [cls |-> cls, crs |-> Unset, coords |-> iterable]

\* Attribute lookup of "crs": the instance __dict__ first, then the class.
GetCrs(p) == IF p.crs # Unset THEN p.crs ELSE ClassCrs(p.cls)

\* Point.__get_subclass: cls itself when its crs matches, else the first hit
\* of the same search in each subclass, else None.
RECURSIVE GetSubclass(_, _)
RECURSIVE SearchSubclasses(_, _)
SearchSubclasses(subs, crs) ==
    IF subs = <<>> THEN NoClass
    ELSE LET got == GetSubclass(Head(subs), crs)
         IN  IF got # NoClass THEN got ELSE SearchSubclasses(Tail(subs), crs)
GetSubclass_root(cls, crs) ==
    IF crs = None THEN "Point"
    ELSE IF \E i \in DOMAIN PointTypes : PyNum(PointTypes[i].crs) = crs
    THEN PointTypes[CHOOSE i \in DOMAIN PointTypes : PyNum(PointTypes[i].crs) = crs].name
    ELSE NoClass
GetSubclass(cls, crs) ==
    IF ClassCrs(cls) = crs THEN cls
    ELSE SearchSubclasses(Subclasses(cls), crs)

Raised(exc, msg, carried) ==
    [raised |-> exc, msg |-> msg, carried |-> carried, inst |-> NoPoint]
Returned(p) ==
    [raised |-> "none", msg |-> "", carried |-> None, inst |-> p]

CrsMsg == "CRS %d not supported"
DimMsg == "%d-dimensional Point values are not supported"

\* "CRS %d not supported" % crs: %d of a value that is no number is a TypeError.
CrsError(crs) ==
    IF IsNum(crs) THEN Raised("ValueError", CrsMsg, crs)
    ELSE Raised("TypeError", "%d format: a number is required", crs)

\* Point.hydrate(cls, crs, *coordinates).
Hydrate_exactAxes(cls, crs, coordinates) ==
    LET point_class == GetSubclass(cls, crs)
    IN  IF point_class = NoClass THEN CrsError(crs)
        ELSE IF Len(coordinates) = Len(ClassFields(point_class))
        THEN Returned([New(point_class, coordinates) EXCEPT !.crs = crs])
        ELSE Raised("ValueError", DimMsg, PyNum(Len(coordinates)))
Hydrate_dimFirst(cls, crs, coordinates) ==
    LET point_class == GetSubclass(cls, crs)
    IN  IF ~(2 <= Len(coordinates) /\ Len(coordinates) <= 3)
        THEN Raised("ValueError", DimMsg, PyNum(Len(coordinates)))
        ELSE IF point_class = NoClass THEN CrsError(crs)
        ELSE Returned([New(point_class, coordinates) EXCEPT !.crs = crs])
Hydrate_truncate(cls, crs, coordinates) ==
    LET point_class == GetSubclass(cls, crs)
    IN  IF point_class = NoClass THEN CrsError(crs)
        ELSE IF 2 <= Len(coordinates)
        THEN Returned([New(point_class,
                           SubSeq(coordinates, 1, IF Len(coordinates) > 3 THEN 3
                                                  ELSE Len(coordinates)))
                       EXCEPT !.crs = crs])
        ELSE Raised("ValueError", DimMsg, PyNum(Len(coordinates)))
Hydrate(cls, crs, coordinates) ==
    LET point_class == GetSubclass(cls, crs)
    IN  IF point_class = NoClass THEN CrsError(crs)
        ELSE IF 2 <= Len(coordinates) /\ Len(coordinates) <= 3
        THEN Returned([New(point_class, coordinates) EXCEPT !.crs = crs])
        ELSE Raised("ValueError", DimMsg, PyNum(Len(coordinates)))

----------------------------------------------------------------------------
Outcome(exc, value, p) == [raised |-> exc, value |-> value, inst |-> p]

\* The index a generated property binds (index=i in the lambda), 0-based.
PropertyIndex(cls, name) ==
    (CHOOSE i \in DOMAIN ClassFields(cls) : ClassFields(cls)[i] = name) - 1

HasField(cls, name) == \E i \in DOMAIN ClassFields(cls) : ClassFields(cls)[i] = name

\* self[index] on a tuple: IndexError past the end.
GetItem(p, index) ==
    IF index < Len(p.coords) THEN Outcome("none", PyNum(p.coords[index + 1]), p)
    ELSE Outcome("IndexError", None, p)

\* p.<name>: crs, or a property of type(p), or no such attribute.
GetAttr(p, name) ==
    IF name = "crs" THEN Outcome("none", GetCrs(p), p)
    ELSE IF HasField(p.cls, name) THEN GetItem(p, PropertyIndex(p.cls, name))
    ELSE Outcome("AttributeError", None, p)

\* p.<name> = value: crs goes to the instance __dict__; a property has no
\* setter.
SetAttr(p, name, value) ==
    IF name = "crs" THEN Outcome("none", None, [p EXCEPT !.crs = value])
    ELSE Outcome("AttributeError", None, p)

\* p[index] = value: Point is a tuple, which has no item assignment.
SetItem_list(p, index, value) ==
    IF index < Len(p.coords)
    THEN Outcome("none", None, [p EXCEPT !.coords[index + 1] = value])
    ELSE Outcome("IndexError", None, p)
SetItem(p, index, value) == Outcome("TypeError", None, p)

\* Values a point is compared with that are no Point: an integer, a list and a
\* tuple of coordinates, an object with no crs attribute, an object with a crs
\* attribute that is no sequence, and an object with a crs attribute that is
\* a sequence.
HasCrs(v) == v.cls \in Classes \/ v.crs # Unset
Iterable(v) == v.cls \in Classes \cup {"list", "tuple", "pointlike"}

\* tuple(a) == tuple(b).
TupleEq(a, b) == Len(a) = Len(b) /\ \A i \in DOMAIN a : a[i] = b[i]

\* The body of the try block of Point.__eq__.
RawEq_noCrs(self, other) ==
    IF ~Iterable(other) THEN Outcome("TypeError", FALSE, self)
    ELSE Outcome("none", TupleEq(self.coords, other.coords), self)
RawEq(self, other) ==
    IF ~HasCrs(other) THEN Outcome("AttributeError", FALSE, self)
    ELSE IF GetCrs(self) # GetCrs(other) THEN Outcome("none", FALSE, self)
    ELSE IF ~Iterable(other) THEN Outcome("TypeError", FALSE, self)
    ELSE Outcome("none", TupleEq(self.coords, other.coords), self)

\* Point.__eq__: AttributeError and TypeError become False.
PointEq_noCatch(self, other) == RawEq(self, other)
PointEq(self, other) ==
    LET got == RawEq(self, other)
    IN  IF got.raised \in {"AttributeError", "TypeError"}
        THEN Outcome("none", FALSE, self)
        ELSE got

\* Point.__ne__.
PointNe(self, other) ==
    LET got == PointEq(self, other)
    IN  Outcome(got.raised, ~got.value, self)

HashMod == 2 ^ HashBits
RECURSIVE Xor(_, _)
Xor(a, b) ==
    IF a = 0 THEN b
    ELSE IF b = 0 THEN a
    ELSE (((a % 2) + (b % 2)) % 2) + (2 * Xor(a \div 2, b \div 2))

\* hash() of a scalar: a small non-negative integer hashes to itself, None to
\* a constant of the build.
PyHash(v) == IF v = None THEN 8191 % HashMod ELSE v[2] % HashMod

\* hash() of a tuple of numbers (the interpreter's multiplicative tuple hash).
RECURSIVE TupleHashFrom(_, _, _)
TupleHashFrom(items, x, mult) ==
    IF items = <<>> THEN (x + 97531) % HashMod
    ELSE LET y == PyHash(PyNum(Head(items)))
             rest == Len(items) - 1
         IN  TupleHashFrom(Tail(items),
                           (Xor(x, y) * mult) % HashMod,
                           (mult + 82520 + rest + rest) % HashMod)
TupleHash(items) == TupleHashFrom(items, 3430008 % HashMod, 1000003 % HashMod)

\* Point.__hash__.
PointHash_typed(p) ==
    Xor(Xor(PyHash(GetCrs(p)), TupleHash(p.coords)), Len(ClassFields(p.cls)))
PointHash(p) == Xor(PyHash(GetCrs(p)), TupleHash(p.coords))

----------------------------------------------------------------------------
\* The values the comparison operand is drawn from.
PointCoords == {s \in CoordLists : Len(s) \in {2, 3}}
CrsAttrs == {Unset} \cup CRSInputs
OtherPoints == [cls : Classes, crs : CrsAttrs, coords : PointCoords]
NonPoints ==
    {[cls |-> "int", crs |-> Unset, coords |-> <<>>],
     [cls |-> "object", crs |-> Unset, coords |-> <<>>]}
    \cup [cls : {"list", "tuple"}, crs : {Unset}, coords : PointCoords]
    \cup [cls : {"tagged"}, crs : CRSInputs, coords : {<<>>}]
PointLikes == [cls : {"pointlike"}, crs : CRSInputs, coords : PointCoords]
Others == OtherPoints \cup NonPoints \cup PointLikes

AttrNames ==
    {"crs"} \cup UNION {{PointTypes[i].fields[j] : j \in DOMAIN PointTypes[i].fields} :
                           i \in DOMAIN PointTypes}

\* No call is in progress: the last outcome has been taken by the caller.
Idle == [op |-> "idle"]

\* The values of the state: any type, any crs entry and any tuple can occur.
TypeOK ==
    /\ inst \in {NoPoint} \cup [cls : Classes, crs : CrsAttrs, coords : CoordLists]
    /\ origin \in {"none", "hydrate", "new"}
    /\ (inst = NoPoint) <=> (origin = "none")
    /\ result.op \in {"idle", "hydrate", "new", "setattr", "setitem", "getattr",
                      "eq", "ne", "hash"}

Init ==
    /\ inst = NoPoint
    /\ origin = "none"
    /\ result = Idle

\* inst = cls.hydrate(crs, *coordinates)
DoHydrate ==
    /\ result = Idle
    /\ inst = NoPoint
    /\ \E cls \in Classes, crs \in CRSInputs, coordinates \in CoordLists :
        LET got == Hydrate(cls, crs, coordinates)
        IN  /\ inst' = got.inst
            /\ origin' = IF got.raised = "none" THEN "hydrate" ELSE "none"
            /\ result' = [op |-> "hydrate", cls |-> cls, crs |-> crs,
                          coordinates |-> coordinates, raised |-> got.raised,
                          msg |-> got.msg, carried |-> got.carried]

\* inst = cls(iterable)
DoNew ==
    /\ result = Idle
    /\ inst = NoPoint
    /\ \E cls \in Classes, iterable \in CoordLists :
        /\ inst' = New(cls, iterable)
        /\ origin' = "new"
        /\ result' = [op |-> "new", cls |-> cls, iterable |-> iterable]

\* inst.<name> = value
DoSetAttr ==
    /\ result = Idle
    /\ inst # NoPoint
    /\ \E name \in {"crs"} \cup {n \in AttrNames : HasField(inst.cls, n)},
          value \in CRSInputs :
        LET got == SetAttr(inst, name, value)
        IN  /\ inst' = got.inst
            /\ result' = [op |-> "setattr", name |-> name, raised |-> got.raised]
    /\ UNCHANGED origin

\* inst[index] = value
DoSetItem ==
    /\ result = Idle
    /\ inst # NoPoint
    /\ \E index \in 0..(MaxLen - 1), value \in Coordinates :
        LET got == SetItem(inst, index, value)
        IN  /\ inst' = got.inst
            /\ result' = [op |-> "setitem", index |-> index, raised |-> got.raised]
    /\ UNCHANGED origin

\* inst.<name>
DoGetAttr ==
    /\ result = Idle
    /\ inst # NoPoint
    /\ \E name \in AttrNames :
        LET got == GetAttr(inst, name)
        IN  result' = [op |-> "getattr", name |-> name, raised |-> got.raised,
                       value |-> got.value]
    /\ UNCHANGED <<inst, origin>>

\* inst == other
DoEq ==
    /\ result = Idle
    /\ inst # NoPoint
    /\ \E other \in Others :
        LET got == PointEq(inst, other)
        IN  result' = [op |-> "eq", other |-> other, raised |-> got.raised,
                       value |-> got.value]
    /\ UNCHANGED <<inst, origin>>

\* inst != other
DoNe ==
    /\ result = Idle
    /\ inst # NoPoint
    /\ \E other \in Others :
        LET got == PointNe(inst, other)
        IN  result' = [op |-> "ne", other |-> other, raised |-> got.raised,
                       value |-> got.value]
    /\ UNCHANGED <<inst, origin>>

\* hash(inst)
DoHash ==
    /\ result = Idle
    /\ inst # NoPoint
    /\ result' = [op |-> "hash", value |-> PointHash(inst)]
    /\ UNCHANGED <<inst, origin>>

\* del inst: the caller drops its reference and the point's life ends.
Del ==
    /\ result = Idle
    /\ inst # NoPoint
    /\ inst' = NoPoint
    /\ origin' = "none"
    /\ UNCHANGED result

\* The call returns (or its exception propagates) to the caller; the program
\* is single-threaded, so the next call starts only then.
Return ==
    /\ result # Idle
    /\ result' = Idle
    /\ UNCHANGED <<inst, origin>>

Next ==
    \/ DoHydrate
    \/ DoNew
    \/ DoSetAttr
    \/ DoSetItem
    \/ DoGetAttr
    \/ DoEq
    \/ DoNe
    \/ DoHash
    \/ Del
    \/ Return

Spec == Init /\ [][Next]_vars

----------------------------------------------------------------------------
\* Vocabulary of the properties.
IsPoint(v) == v.cls \in Classes
ValidCount(coordinates) == Len(coordinates) \in {2, 3}
\* The type name the table registers for a code.
RegisteredName(crs) ==
    PointTypes[CHOOSE i \in DOMAIN PointTypes : PyNum(PointTypes[i].crs) = crs].name
\* The position (from 1) of an axis label in a type's axis list.
LabelPosition(cls, name) ==
    CHOOSE i \in DOMAIN ClassFields(cls) : ClassFields(cls)[i] = name
\* Same CRS tag and the same coordinates, position by position.
SameValue(p, q) ==
    /\ GetCrs(p) = GetCrs(q)
    /\ Len(p.coords) = Len(q.coords)
    /\ \A i \in 1..Len(p.coords) : p.coords[i] = q.coords[i]

\* C1: hydrate on the base Point with a registered CRS code and 2 or 3
\* coordinates returns a point of the type registered for the code, tagged
\* with the code and holding the coordinates in the given order, whatever
\* the number of axis labels of that type.
C1_HydrateRegistered ==
    (/\ result.op = "hydrate"
     /\ result.cls = "Point"
     /\ result.crs \in RegisteredCrs
     /\ ValidCount(result.coordinates))
    => /\ result.raised = "none"
       /\ inst.cls = RegisteredName(result.crs)
       /\ GetCrs(inst) = result.crs
       /\ inst.coords = result.coordinates
C1_Witness ==
    /\ result.op = "hydrate"
    /\ result.cls = "Point"
    /\ result.crs = PyNum(7203)
    /\ Len(result.coordinates) = 3
    /\ inst.cls = "CartesianPoint"
    /\ inst.coords = <<1, 2, 1>>

\* C2: hydrate with an integer CRS code that is not registered fails with the
\* unsupported-CRS error carrying the code, for every coordinate count, and
\* leaves no point (no fallback to a base Point, CRS check first).
C2_UnregisteredCrsFails ==
    (/\ result.op = "hydrate"
     /\ IsNum(result.crs)
     /\ result.crs \notin RegisteredCrs)
    => /\ result.raised = "ValueError"
       /\ result.msg = CrsMsg
       /\ result.carried = result.crs
       /\ inst = NoPoint
C2_Witness ==
    /\ result.op = "hydrate"
    /\ result.cls = "Point"
    /\ result.crs = PyNum(7204)
    /\ Len(result.coordinates) = 4
    /\ result.msg = CrsMsg
    /\ inst = NoPoint

\* C3: hydrate with a CRS code that resolves and 0, 1 or at least 4
\* coordinates fails with the unsupported-dimensionality error carrying the
\* count, and leaves no point.
C3_BadCountFails ==
    (/\ result.op = "hydrate"
     /\ result.crs \in RegisteredCrs
     /\ (result.cls = "Point" \/ ClassCrs(result.cls) = result.crs)
     /\ ~ValidCount(result.coordinates))
    => /\ result.raised = "ValueError"
       /\ result.msg = DimMsg
       /\ result.carried = PyNum(Len(result.coordinates))
       /\ inst = NoPoint
C3_Witness ==
    /\ result.op = "hydrate"
    /\ result.crs = PyNum(4979)
    /\ Len(result.coordinates) = 4
    /\ result.msg = DimMsg
    /\ result.carried = PyNum(4)
    /\ inst = NoPoint

C5_TwoOrThreeCoordinates ==
    inst # NoPoint => ValidCount(inst.coords)

\* C6: two points are equal exactly when their CRS tags are equal and their
\* coordinates are equal position by position, whatever their types; != is
\* the negation.
C6_EqualityIsByValue ==
    /\ (result.op = "eq" /\ IsPoint(result.other))
       => /\ result.raised = "none"
          /\ result.value <=> SameValue(inst, result.other)
    /\ (result.op = "ne" /\ IsPoint(result.other))
       => /\ result.raised = "none"
          /\ result.value <=> ~SameValue(inst, result.other)
C6_Witness ==
    /\ result.op = "eq"
    /\ result.value
    /\ inst.cls = "CartesianPoint"
    /\ result.other.cls = "Point"
    /\ result.other.crs = PyNum(7203)

\* C7: a point's hash equals the hash of every point it is equal to,
\* whatever the two types.
C7_HashFollowsEquality ==
    result.op = "hash"
    => \A q \in OtherPoints :
           PointEq(inst, q).value => PointHash(q) = result.value
C7_Witness ==
    /\ result.op = "hash"
    /\ \E q \in OtherPoints :
           /\ q.cls # inst.cls
           /\ q.crs # inst.crs
           /\ PointEq(inst, q).value

\* C8: comparing a point with an integer, a list or tuple of coordinates, an
\* object with no crs attribute or an object with a crs attribute that is no
\* sequence raises nothing and gives "not equal".
C8_NonPointsAreUnequal ==
    (result.op \in {"eq", "ne"} /\ result.other \in NonPoints)
    => /\ result.raised = "none"
       /\ result.value = (result.op = "ne")
C8_Witness ==
    /\ result.op = "eq"
    /\ result.other.cls = "tagged"
    /\ result.other.crs = GetCrs(inst)
    /\ ~result.value

\* C9: on a point returned by hydrate, every accessor its type declares
\* returns the coordinate at its label's position and raises nothing.
C9_AccessorsProject ==
    (/\ result.op = "getattr"
     /\ origin = "hydrate"
     /\ HasField(inst.cls, result.name))
    => /\ result.raised = "none"
       /\ LabelPosition(inst.cls, result.name) <= Len(inst.coords)
       /\ result.value = PyNum(inst.coords[LabelPosition(inst.cls, result.name)])

\* C10: hydrate resolves the CRS code among the type it is called on and that
\* type's subtypes: on Point every registered code resolves; on a generated
\* type only its own code does, and any other integer code fails with the
\* unsupported-CRS error.
C10_ResolutionIsRelativeToCls ==
    (result.op = "hydrate" /\ IsNum(result.crs))
    => /\ (result.cls = "Point" /\ result.crs \in RegisteredCrs)
          => (result.raised = "none" <=> ValidCount(result.coordinates))
       /\ result.cls # "Point"
          => /\ (result.raised = "none"
                 <=> (result.crs = ClassCrs(result.cls)
                      /\ ValidCount(result.coordinates)))
             /\ (result.crs # ClassCrs(result.cls)
                 => /\ result.raised = "ValueError"
                    /\ result.msg = CrsMsg
                    /\ result.carried = result.crs)
C10_Witness ==
    /\ result.op = "hydrate"
    /\ result.cls = "CartesianPoint"
    /\ result.crs = PyNum(4326)
    /\ Len(result.coordinates) = 2
    /\ result.msg = CrsMsg
    /\ inst = NoPoint

====
